---- MODULE Spec2Model ----
(***************************************************************************)
(* Model of the cnnClassifier scaffolding: the template generator          *)
(* (template.py), the persistence utilities (cnnClassifier/utils/common.py) *)
(* and the logging initializer (cnnClassifier/__init__.py), over a small    *)
(* model of the filesystem those three work on.                            *)
(***************************************************************************)
EXTENDS Integers, Sequences, FiniteSets, TLC

VARIABLES
    fs,         \* the filesystem: existing path -> [kind, data]
    filepaths,  \* TemplateCreator.filepaths
    idx,        \* position of create_files' for loop (1-based)
    pc,         \* "idle" | "dir" | "file" | "done" | "raised"
    run,        \* number of create_files calls started
    pre,        \* the filesystem when the current call started
    result,     \* the last utility call: its arguments and how it ended
    calllog,    \* the records that call handed to the logger, in order
    ncalls,     \* number of utility calls made
    root,       \* the root logger: its handlers and its level
    loggerDict, \* logging's registry: logger name -> logger instance
    nobj,       \* number of handler and logger objects created so far
    lcalls      \* the configure_logger calls made, each with how it ended

tvars == <<filepaths, idx, pc, run>>
uvars == <<result, calllog, ncalls>>
lvars == <<root, loggerDict, nobj, lcalls>>
vars == <<fs, pre, tvars, uvars, lvars>>

(***************************************************************************)
(* Bounds                                                                  *)
(***************************************************************************)
MaxLen == 2     \* longest path list handed to TemplateCreator
MaxRuns == 2    \* consecutive create_files calls on one TemplateCreator
MaxCalls == 2   \* utility calls in a row

(***************************************************************************)
(* Filesystem.  A path is a non-empty sequence of components; the empty    *)
(* sequence is the working directory, which always exists.  A node is a    *)
(* directory or a regular file holding a text.                             *)
(***************************************************************************)
DirNode == [kind |-> "dir", data |-> ""]
FileNode(text) == [kind |-> "file", data |-> text]
EmptyFS == << >>

Exists(f, p) == p = << >> \/ p \in DOMAIN f
IsDir(f, p) == p = << >> \/ (p \in DOMAIN f /\ f[p].kind = "dir")
is_file(f, p) == p \in DOMAIN f /\ f[p].kind = "file"
st_size(f, p) == Len(f[p].data)

Parent(p) == SubSeq(p, 1, Len(p) - 1)
Prefixes(p) == {SubSeq(p, 1, k) : k \in 1..Len(p)}

\* Every existing node lies in a directory.
WellFormed(f) == \A p \in DOMAIN f : p # << >> /\ IsDir(f, Parent(p))

\* os.path.split: (everything before the last component, the last component).
split(p) == [filedir |-> Parent(p), filename |-> p[Len(p)]]

\* os.makedirs(d, exist_ok=True) raises when d or one of its ancestors is a
\* regular file (FileExistsError / NotADirectoryError, both OSError).
makedirs_raises(f, d) == \E q \in Prefixes(d) : is_file(f, q)

\* os.makedirs(d, exist_ok=True) otherwise: every missing ancestor and d itself
\* become directories, existing ones are left as they are.
makedirs(f, d) ==
    [q \in DOMAIN f \cup Prefixes(d) |-> IF q \in DOMAIN f THEN f[q] ELSE DirNode]

\* Path.touch() raises when it has to create the file and the parent is not a
\* directory.
touch_raises(f, p) == ~Exists(f, p) /\ ~IsDir(f, Parent(p))

\* Path.touch(): an existing node (file or directory) only has its times
\* updated; a missing one is created as an empty regular file.
touch(f, p) ==
    IF Exists(f, p) THEN f
    ELSE [q \in DOMAIN f \cup {p} |-> IF q = p THEN FileNode("") ELSE f[q]]

\* The error open(p, "r"/"rb") raises, "" when it opens the file.
open_r_error(f, p) ==
    IF is_file(f, p) THEN ""
    ELSE IF IsDir(f, p) THEN "IsADirectoryError"
    ELSE IF \E q \in Prefixes(p) : is_file(f, q) THEN "NotADirectoryError"
    ELSE "FileNotFoundError"

\* The error open(p, "w"/"wb") raises, "" when it opens (creates, truncates)
\* the file.
open_w_error(f, p) ==
    IF IsDir(f, p) THEN "IsADirectoryError"
    ELSE IF IsDir(f, Parent(p)) THEN ""
    ELSE IF \E q \in Prefixes(p) : is_file(f, q) THEN "NotADirectoryError"
    ELSE "FileNotFoundError"

\* open(p, "w") followed by writing text: the file is created or truncated.
write_text(f, p, text) ==
    [q \in DOMAIN f \cup {p} |-> IF q = p THEN FileNode(text) ELSE f[q]]

(***************************************************************************)
(* template.py: the hardcoded list                                         *)
(***************************************************************************)
project_name == "cnnClassifier"

\* The string literals written between the brackets of list_of_files, in
\* order, each with whether a comma follows it.
Literals ==
    << [path |-> <<"src", project_name, "__init__.py">>, comma |-> TRUE],
       [path |-> <<"src", project_name, "components", "__init__.py">>, comma |-> TRUE],
       [path |-> <<"src", project_name, "utils", "__init__.py">>, comma |-> TRUE],
       [path |-> <<"src", project_name, "utils", "common.py">>, comma |-> TRUE],
       [path |-> <<"src", project_name, "config", "__init__.py">>, comma |-> TRUE],
       [path |-> <<"src", project_name, "config", "configuration.py">>, comma |-> TRUE],
       [path |-> <<"src", project_name, "pipeline", "__init__.py">>, comma |-> TRUE],
       [path |-> <<"src", project_name, "entity", "__init__.py">>, comma |-> TRUE],
       [path |-> <<"src", project_name, "constants", "__init__.py">>, comma |-> TRUE],
       [path |-> <<"config", "config.yaml">>, comma |-> TRUE],
       [path |-> <<"dvc.yaml">>, comma |-> TRUE],
       [path |-> <<"params.yaml">>, comma |-> TRUE],
       [path |-> <<"requirements.txt">>, comma |-> TRUE],
       [path |-> <<"setup.py">>, comma |-> TRUE],
       [path |-> <<"research", "trials.ipynb">>, comma |-> TRUE],
       [path |-> <<"templates", "index.html">>, comma |-> FALSE],
       [path |-> <<"main.py">>, comma |-> FALSE] >>

\* Two adjacent string literals with no comma between them are one string:
\* the last component of the first runs into the first component of the second.
ConcatLiterals(p, q) ==
    SubSeq(p, 1, Len(p) - 1) \o << p[Len(p)] \o q[1] >> \o Tail(q)

\* The list a sequence of literals evaluates to.
RECURSIVE ListValue(_, _)
ListValue(lits, acc) ==
    IF lits = << >> THEN acc
    ELSE IF acc # << >> /\ ~acc[Len(acc)].comma
         THEN ListValue(Tail(lits),
                  SubSeq(acc, 1, Len(acc) - 1) \o
                  << [path |-> ConcatLiterals(acc[Len(acc)].path, Head(lits).path),
                      comma |-> Head(lits).comma] >>)
         ELSE ListValue(Tail(lits), Append(acc, Head(lits)))

list_of_files ==
    LET v == ListValue(Literals, << >>) IN [i \in 1..Len(v) |-> v[i].path]

(***************************************************************************)
(* Python values, as far as the utilities tell them apart                  *)
(***************************************************************************)
PyNone == [type |-> "NoneType", repr |-> "None"]
PyInt == [type |-> "int", repr |-> "42"]
PyDict == [type |-> "dict", repr |-> "{'a': 1}"]
PyListOfInts == [type |-> "list", repr |-> "[1, 2]"]
PyListOfPairs == [type |-> "list", repr |-> "[['a', 1]]"]
PyDictWithSet == [type |-> "dict", repr |-> "{'k': {1}}"]
PyLambda == [type |-> "function", repr |-> "<lambda>"]
PyStr(text) == [type |-> "str", repr |-> text]
PyConfigBox(v) == [type |-> "ConfigBox", repr |-> v.repr]

\* No utility call has been made yet.
NoCall ==
    [fn |-> "", path |-> << >>, arg |-> "", paths |-> << >>, attempted |-> << >>,
     exc |-> "", names_path |-> FALSE, value |-> PyNone]

UIdle == result = NoCall /\ calllog = << >> /\ ncalls = 0

\* The logging module before anything configured it: a root logger with no
\* handler, at its default level, and no named logger.
UnconfiguredRoot == [handlers |-> << >>, level |-> "WARNING"]
LIdle == root = UnconfiguredRoot /\ loggerDict = << >> /\ nobj = 0 /\ lcalls = << >>

(***************************************************************************)
(* template.py: TemplateCreator.create_files                               *)
(***************************************************************************)
\* Lines 31-35 for one path: the filesystem after the directory part has been
\* ensured, or the error os.makedirs raises.
DirPart(f, p) ==
    LET filedir == split(p).filedir IN
    IF filedir # << >> /\ makedirs_raises(f, filedir)
    THEN [raised |-> TRUE, fs |-> f]
    ELSE [raised |-> FALSE,
          fs |-> IF filedir # << >> THEN makedirs(f, filedir) ELSE f]

\* The test that guards the creation of the file (line 38).
NeedsCreate(f, p) == ~is_file(f, p) \/ st_size(f, p) = 0

\* Variant: the file part written with open(p, "w"), unguarded.
FileStepTruncating(f, p) == write_text(f, p, "")
\* Lines 38-42: the filesystem after the file part of an iteration.
FileStep(f, p) == IF NeedsCreate(f, p) THEN touch(f, p) ELSE f

\* Variant: the "already exists" branch leaves the loop.
AfterExistingBreaks(i, n) == n + 1
\* Where the loop goes after the "already exists" branch (line 42): on to the
\* next path.
AfterExisting(i, n) == i + 1

\* Lines 38-42 for the i-th of n paths: the filesystem and the loop position
\* after the file part, or the error Path.touch raises.
FilePart(f, p, i, n) ==
    IF NeedsCreate(f, p) /\ touch_raises(f, p)
    THEN [raised |-> TRUE, fs |-> f, idx |-> i]
    ELSE [raised |-> FALSE, fs |-> FileStep(f, p),
          idx |-> IF NeedsCreate(f, p) THEN i + 1 ELSE AfterExisting(i, n)]

\* A whole call of create_files on list from position i: the final filesystem
\* and whether the call returned ("done") or raised.
RECURSIVE create_files(_, _, _)
create_files(f, list, i) ==
    IF i > Len(list) THEN [status |-> "done", fs |-> f]
    ELSE LET d == DirPart(f, list[i]) IN
         IF d.raised THEN [status |-> "raised", fs |-> d.fs]
         ELSE LET r == FilePart(d.fs, list[i], i, Len(list)) IN
              IF r.raised THEN [status |-> "raised", fs |-> r.fs]
              ELSE create_files(r.fs, list, r.idx)

PathUniverse == { <<"a">>, <<"a", "b">>, <<"c">> }
Texts == {"", "x"}

\* Every well-formed filesystem over the paths of U.
FilesystemsOver(U) ==
    { f \in UNION { [S -> {DirNode} \cup {FileNode(t) : t \in Texts}] :
                    S \in SUBSET U } : WellFormed(f) }

PathLists == UNION { [1..n -> PathUniverse] : n \in 0..MaxLen }

\* A TemplateCreator built on any path list, in any directory.
TInit ==
    /\ fs \in FilesystemsOver(PathUniverse)
    /\ filepaths \in PathLists
    /\ idx = 0
    /\ pc = "idle"
    /\ run = 0
    /\ pre = fs
    /\ UIdle
    /\ LIdle

\* creator.create_files() is called (again).
Call ==
    /\ pc \in {"idle", "done", "raised"}
    /\ run < MaxRuns
    /\ run' = run + 1
    /\ pre' = fs
    /\ idx' = 1
    /\ pc' = IF Len(filepaths) = 0 THEN "done" ELSE "dir"
    /\ UNCHANGED <<fs, filepaths, uvars, lvars>>

\* Lines 28-35: split the path, create the directory part if there is one.
EnsureDir ==
    /\ pc = "dir"
    /\ LET d == DirPart(fs, filepaths[idx]) IN
         /\ fs' = d.fs
         /\ pc' = IF d.raised THEN "raised" ELSE "file"
    /\ UNCHANGED <<filepaths, idx, run, pre, uvars, lvars>>

\* Lines 38-42: create the file unless it is a populated regular file, and
\* move on.
EnsureFile ==
    /\ pc = "file"
    /\ LET r == FilePart(fs, filepaths[idx], idx, Len(filepaths)) IN
         /\ fs' = r.fs
         /\ idx' = r.idx
         /\ pc' = IF r.raised THEN "raised"
                  ELSE IF r.idx > Len(filepaths) THEN "done" ELSE "dir"
    /\ UNCHANGED <<filepaths, run, pre, uvars, lvars>>

TNext == Call \/ EnsureDir \/ EnsureFile

Spec == TInit /\ [][TNext]_vars

\* The paths the entry point's run may already find in the working directory.
SkeletonSample ==
    { <<"main.py">>, <<"templates">>, <<"templates", "index.html">>, <<"src">> }

\* python template.py, in an empty directory or one that holds some of the
\* skeleton already.
MainInit ==
    /\ fs \in FilesystemsOver(SkeletonSample)
    /\ filepaths = list_of_files
    /\ idx = 0
    /\ pc = "idle"
    /\ run = 0
    /\ pre = fs
    /\ UIdle
    /\ LIdle

SpecMain == MainInit /\ [][TNext]_vars

TypeOK ==
    /\ WellFormed(fs)
    /\ pc \in {"idle", "dir", "file", "done", "raised"}
    /\ run \in 0..MaxRuns

(***************************************************************************)
(* Claims about the template generator                                     *)
(***************************************************************************)
Populated(f, p) == is_file(f, p) /\ st_size(f, p) > 0

Targets == {filepaths[i] : i \in 1..Len(filepaths)}

\* C1: during and after every run of create_files, every file that was a
\* populated regular file when the run started is still there with exactly
\* the content it had.
C1_PopulatedFilesUntouched ==
    \A p \in DOMAIN pre :
        Populated(pre, p) => (p \in DOMAIN fs /\ fs[p] = pre[p])

\* C1 witness: a second consecutive run has returned on a list that names a
\* populated file and a file the first run had to create.
C1_Witness ==
    /\ run = 2 /\ pc = "done"
    /\ \E p \in Targets : Populated(pre, p)
    /\ \E p \in Targets : is_file(fs, p) /\ ~Populated(fs, p)

\* C2: when create_files returns, every path of the list is a regular file,
\* empty if it was missing or zero-length before, and every non-empty
\* directory part is a directory.
C2_AlwaysBackfills ==
    pc = "done" =>
        \A p \in Targets :
            /\ is_file(fs, p)
            /\ ~Populated(pre, p) => st_size(fs, p) = 0
            /\ IsDir(fs, split(p).filedir)

\* Every ordering of a list.
Orderings(list) ==
    { [i \in 1..Len(list) |-> list[perm[i]]] : perm \in Permutations(1..Len(list)) }

\* C9 (as claimed): whatever the order of the list, the first call of
\* create_files ends with the same filesystem.
C9_OrderIndependent ==
    (run = 1 /\ pc \in {"done", "raised"}) =>
        \A q \in Orderings(filepaths) : create_files(pre, q, 1).fs = fs

\* C9 (amended): any two orderings of the list on which create_files returns
\* without raising end with the same filesystem.
C9_OrderIndependentWhenReturning ==
    (run = 1 /\ pc = "done") =>
        \A q \in Orderings(filepaths) :
            create_files(pre, q, 1).status = "done" => create_files(pre, q, 1).fs = fs

\* C9 witness: a run over two different paths, one the directory of the
\* other, returned, changed the filesystem, and the reversed list returns too.
C9_Witness ==
    /\ run = 1 /\ pc = "done" /\ fs # pre
    /\ Len(filepaths) = 2 /\ filepaths[1] = Parent(filepaths[2])
    /\ create_files(pre, <<filepaths[2], filepaths[1]>>, 1).status = "done"

\* The paths as they are written in the source of list_of_files.
WrittenPaths == {Literals[i].path : i \in 1..Len(Literals)}

\* C10: after the entry point has run in an empty directory, every path
\* written in the list is an empty regular file of its own, templates/index.html
\* and main.py among them, and there is no other file.
C10_EveryWrittenFileCreated ==
    (filepaths = list_of_files /\ pre = EmptyFS /\ run = 1 /\ pc = "done") =>
        /\ is_file(fs, <<"templates", "index.html">>)
        /\ is_file(fs, <<"main.py">>)
        /\ {p \in DOMAIN fs : is_file(fs, p)} = WrittenPaths
        /\ \A p \in WrittenPaths : st_size(fs, p) = 0
(***************************************************************************)
(* The libraries common.py calls, on the texts the model's files hold      *)
(***************************************************************************)
JsonText == "{\n    \"a\": 1\n}"     \* json.dump({"a": 1}, f, indent=4)
JsonPartial == "{\n    \"k\": "      \* what json.dump wrote before it failed
PickleHeader == "<pickle"             \* what joblib.dump wrote before it failed
Blob(v) == "<pickle " \o v.repr \o ">"  \* joblib.dump(v): binary, not UTF-8

Picklable == {PyDict, PyInt}
Blobs == {Blob(v) : v \in Picklable} \cup {PickleHeader}

\* yaml.safe_load of a file opened in text mode.
yaml_safe_load(text) ==
    CASE text = "" -> [err |-> "", value |-> PyNone]
      [] text = "a: 1" -> [err |-> "", value |-> PyDict]
      [] text = "42" -> [err |-> "", value |-> PyInt]
      [] text = "[1, 2]" -> [err |-> "", value |-> PyListOfInts]
      [] text = "[[\"a\", 1]]" -> [err |-> "", value |-> PyListOfPairs]
      [] text = "a: [" -> [err |-> "YAMLError", value |-> PyNone]
      [] text = JsonText -> [err |-> "", value |-> PyDict]
      [] text = JsonPartial -> [err |-> "YAMLError", value |-> PyNone]
      [] text \in Blobs -> [err |-> "UnicodeDecodeError", value |-> PyNone]

\* json.load of a file opened in text mode.
json_load(text) ==
    CASE text = "42" -> [err |-> "", value |-> PyInt]
      [] text = "[1, 2]" -> [err |-> "", value |-> PyListOfInts]
      [] text = "[[\"a\", 1]]" -> [err |-> "", value |-> PyListOfPairs]
      [] text = JsonText -> [err |-> "", value |-> PyDict]
      [] text \in {"", "a: 1", "a: [", JsonPartial} ->
             [err |-> "JSONDecodeError", value |-> PyNone]
      [] text \in Blobs -> [err |-> "UnicodeDecodeError", value |-> PyNone]

\* json.dump(data, f, indent=4): the text that reaches the file and the error
\* raised; a value json cannot encode raises TypeError after the text before
\* it has been written.
json_dump(data) ==
    CASE data = PyDict -> [err |-> "", text |-> JsonText]
      [] data = PyDictWithSet -> [err |-> "TypeError", text |-> JsonPartial]

\* joblib.dump(value, filename) on an opened file.
joblib_dump(data) ==
    IF data \in Picklable THEN [err |-> "", text |-> Blob(data)]
    ELSE [err |-> "PicklingError", text |-> PickleHeader]

\* joblib.load of an existing regular file.
joblib_load(text) ==
    IF \E v \in Picklable : text = Blob(v)
    THEN [err |-> "", value |-> CHOOSE v \in Picklable : text = Blob(v)]
    ELSE IF text = "" THEN [err |-> "EOFError", value |-> PyNone]
    ELSE [err |-> "UnpicklingError", value |-> PyNone]

\* base64.b64decode(imgstring): the bytes, or binascii.Error.
b64decode(imgstring) ==
    CASE imgstring = "" -> [err |-> "", text |-> ""]
      [] imgstring = "NDI=" -> [err |-> "", text |-> "42"]
      [] imgstring = "YTogMQ==" -> [err |-> "", text |-> "a: 1"]
      [] imgstring = "NDI" -> [err |-> "binascii.Error", text |-> ""]

\* base64.b64encode(data).decode("utf-8").
b64encode(text) ==
    CASE text = "" -> ""
      [] text = "a: 1" -> "YTogMQ=="
      [] text = "42" -> "NDI="
      [] text = "[1, 2]" -> "WzEsIDJd"
      [] text = "[[\"a\", 1]]" -> "W1siYSIsIDFdXQ=="
      [] text = "a: [" -> "YTogWw=="
      [] text = JsonText -> "ewogICAgImEiOiAxCn0="
      [] text = JsonPartial -> "ewogICAgImsiOiA="
      [] text \in Blobs -> "base64 of " \o text

\* ConfigBox(content): Box.__init__ on one positional argument.  A string is
\* refused, a mapping is copied, any other iterable is unpacked as (key, value)
\* pairs, and anything else is refused.
ConfigBox(content) ==
    CASE content.type = "str" -> [err |-> "BoxValueError", value |-> PyNone]
      [] content.type = "dict" -> [err |-> "", value |-> PyConfigBox(content)]
      [] content = PyListOfPairs -> [err |-> "", value |-> PyConfigBox(content)]
      [] content = PyListOfInts -> [err |-> "TypeError", value |-> PyNone]
      [] OTHER -> [err |-> "BoxValueError", value |-> PyNone]

\* ensure_annotations: the error raised when an argument is not of its
\* annotated type, "" otherwise.
ensure_annotations(value, annotation) ==
    IF value.type = annotation THEN "" ELSE "EnsureError"

(***************************************************************************)
(* cnnClassifier/utils/common.py.  Each utility is an operator from the     *)
(* filesystem and the arguments to the filesystem after the call, how the   *)
(* call ended (res) and what it logged.                                     *)
(***************************************************************************)
Rec(level, fn, path) == [level |-> level, fn |-> fn, path |-> path]

Args(fn, path, arg) == [NoCall EXCEPT !.fn = fn, !.path = path, !.arg = arg]
\* names: whether the message of the error names the path.
Raised(base, exc, names) == [base EXCEPT !.exc = exc, !.names_path = names]
Returned(base, v) == [base EXCEPT !.value = v]

\* Lines 18-54.
read_yaml(f, path_to_yaml) ==
    LET base == Args("read_yaml", path_to_yaml, "")
        operr == open_r_error(f, path_to_yaml)
        loaded == yaml_safe_load(f[path_to_yaml].data)
        box == ConfigBox(loaded.value)
        info == Rec("INFO", "read_yaml", path_to_yaml)
        unexpected == Rec("ERROR", "read_yaml", path_to_yaml)
    IN  IF operr = "FileNotFoundError"
        THEN [fs |-> f, res |-> Raised(base, "FileNotFoundError", TRUE), log |-> << >>]
        ELSE IF operr # ""
        THEN [fs |-> f, res |-> Raised(base, operr, TRUE), log |-> <<unexpected>>]
        ELSE IF loaded.err = "YAMLError"
        THEN [fs |-> f, res |-> Raised(base, "YAMLError", FALSE), log |-> << >>]
        ELSE IF loaded.err # ""
        THEN [fs |-> f, res |-> Raised(base, loaded.err, FALSE), log |-> <<unexpected>>]
        ELSE IF box.err = "BoxValueError"
        THEN [fs |-> f, res |-> Raised(base, "ValueError", FALSE), log |-> <<info>>]
        ELSE IF box.err # ""
        THEN [fs |-> f, res |-> Raised(base, box.err, FALSE), log |-> <<info, unexpected>>]
        ELSE [fs |-> f, res |-> Returned(base, box.value), log |-> <<info>>]

\* Variant: the handler logs and re-raises.
OSErrorHandlerReraises(fn, path) ==
    [log |-> <<Rec("ERROR", fn, path)>>, reraise |-> TRUE]
\* Lines 84-85: the handler of create_directories logs the error and lets the
\* loop go on.
OSErrorHandler(fn, path) ==
    [log |-> <<Rec("ERROR", fn, path)>>, reraise |-> FALSE]

\* Lines 79-85: the loop of create_directories from position i.
RECURSIVE create_directories_loop(_, _, _, _, _)
create_directories_loop(f, paths, verbose, i, log) ==
    IF i > Len(paths)
    THEN [fs |-> f, log |-> log, attempted |-> paths, exc |-> ""]
    ELSE IF makedirs_raises(f, paths[i])
    THEN LET h == OSErrorHandler("create_directories", paths[i]) IN
         IF h.reraise
         THEN [fs |-> f, log |-> log \o h.log,
               attempted |-> SubSeq(paths, 1, i), exc |-> "OSError"]
         ELSE create_directories_loop(f, paths, verbose, i + 1, log \o h.log)
    ELSE create_directories_loop(makedirs(f, paths[i]), paths, verbose, i + 1,
             IF verbose
             THEN Append(log, Rec("INFO", "create_directories", paths[i]))
             ELSE log)

\* Lines 61-85.
create_directories(f, paths_to_directories, verbose) ==
    LET r == create_directories_loop(f, paths_to_directories, verbose, 1, << >>)
        base == [Args("create_directories", << >>, IF verbose THEN "True" ELSE "False")
                    EXCEPT !.paths = paths_to_directories, !.attempted = r.attempted]
    IN  [fs |-> r.fs, log |-> r.log,
         res |-> IF r.exc = "" THEN Returned(base, PyNone)
                 ELSE Raised(base, r.exc, TRUE)]

\* Lines 89-119.
save_json(f, path, data) ==
    LET base == Args("save_json", path, data.repr)
        ensured == ensure_annotations(data, "dict")
        operr == open_w_error(f, path)
        dumped == json_dump(data)
    IN  IF ensured # ""
        THEN [fs |-> f, res |-> Raised(base, ensured, FALSE), log |-> << >>]
        ELSE IF data.type # "dict"
        THEN [fs |-> f, res |-> Raised(base, "TypeError", FALSE), log |-> << >>]
        ELSE IF operr # ""
        THEN [fs |-> f, res |-> Raised(base, operr, TRUE),
              log |-> <<Rec("ERROR", "save_json", path)>>]
        ELSE IF dumped.err # ""
        THEN [fs |-> write_text(f, path, dumped.text),
              res |-> Raised(base, dumped.err, FALSE), log |-> << >>]
        ELSE [fs |-> write_text(f, path, dumped.text),
              res |-> Returned(base, PyNone),
              log |-> <<Rec("INFO", "save_json", path)>>]

\* Lines 123-150.
load_json(f, path) ==
    LET base == Args("load_json", path, "")
        operr == open_r_error(f, path)
        loaded == json_load(f[path].data)
        box == ConfigBox(loaded.value)
        info == Rec("INFO", "load_json", path)
    IN  IF operr # ""
        THEN [fs |-> f, res |-> Raised(base, operr, TRUE), log |-> << >>]
        ELSE IF loaded.err = "JSONDecodeError"
        THEN [fs |-> f, res |-> Raised(base, "JSONDecodeError", TRUE), log |-> << >>]
        ELSE IF loaded.err # ""
        THEN [fs |-> f, res |-> Raised(base, loaded.err, FALSE), log |-> << >>]
        ELSE IF box.err # ""
        THEN [fs |-> f, res |-> Raised(base, box.err, FALSE), log |-> <<info>>]
        ELSE [fs |-> f, res |-> Returned(base, box.value), log |-> <<info>>]

\* Lines 154-177.
save_bin(f, data, path) ==
    LET base == Args("save_bin", path, data.repr)
        operr == open_w_error(f, path)
        dumped == joblib_dump(data)
        failed == Rec("ERROR", "save_bin", path)
    IN  IF operr # ""
        THEN [fs |-> f, res |-> Raised(base, operr, TRUE), log |-> <<failed>>]
        ELSE IF dumped.err # ""
        THEN [fs |-> write_text(f, path, dumped.text),
              res |-> Raised(base, dumped.err, FALSE), log |-> <<failed>>]
        ELSE [fs |-> write_text(f, path, dumped.text),
              res |-> Returned(base, PyNone),
              log |-> <<Rec("INFO", "save_bin", path)>>]

\* Variant: load_bin without its logger.info line.
load_bin_silent(f, path) ==
    LET base == Args("load_bin", path, "")
        operr == open_r_error(f, path)
        loaded == joblib_load(f[path].data)
    IN  IF operr = "FileNotFoundError"
        THEN [fs |-> f, res |-> Raised(base, "FileNotFoundError", TRUE), log |-> << >>]
        ELSE IF operr # "" \/ loaded.err # ""
        THEN [fs |-> f, res |-> Raised(base, "Exception", TRUE), log |-> << >>]
        ELSE [fs |-> f, res |-> Returned(base, loaded.value), log |-> << >>]
\* Lines 181-206.
load_bin(f, path) ==
    LET base == Args("load_bin", path, "")
        operr == open_r_error(f, path)
        loaded == joblib_load(f[path].data)
    IN  IF operr = "FileNotFoundError"
        THEN [fs |-> f, res |-> Raised(base, "FileNotFoundError", TRUE), log |-> << >>]
        ELSE IF operr # "" \/ loaded.err # ""
        THEN [fs |-> f, res |-> Raised(base, "Exception", TRUE), log |-> << >>]
        ELSE [fs |-> f, res |-> Returned(base, loaded.value),
              log |-> <<Rec("INFO", "load_bin", path)>>]

\* Variant: a mapping that also accepts "TB".
UNITS_MAPPING_WithTB ==
    [KB |-> 1024, MB |-> 1024 * 1024, GB |-> 1024 * 1024 * 1024, TB |-> 1024 * 1024]
\* Lines 229-233.
UNITS_MAPPING == [KB |-> 1024, MB |-> 1024 * 1024, GB |-> 1024 * 1024 * 1024]

\* round(size_in_bytes / unit, 2) in hundredths: to the nearest, ties to even.
round2(size_in_bytes, unit) ==
    LET q == (size_in_bytes * 100) \div unit
        r == (size_in_bytes * 100) % unit
    IN  IF 2 * r < unit THEN q
        ELSE IF 2 * r > unit THEN q + 1
        ELSE IF q % 2 = 0 THEN q ELSE q + 1

\* str() of a float given in hundredths: 0 -> "0.0", 1 -> "0.01", 150 -> "1.5".
float_str(h) ==
    ToString(h \div 100) \o "." \o
    (IF h % 100 = 0 THEN "0"
     ELSE IF h % 10 = 0 THEN ToString((h % 100) \div 10)
     ELSE IF h % 100 < 10 THEN "0" \o ToString(h % 100)
     ELSE ToString(h % 100))

\* Lines 209-243.  (os.path.getsize of a directory is taken as 0.)
get_size(f, path, units) ==
    LET base == Args("get_size", path, units) IN
    IF ~Exists(f, path)
    THEN [fs |-> f, res |-> Raised(base, "FileNotFoundError", TRUE), log |-> << >>]
    ELSE IF units \notin DOMAIN UNITS_MAPPING
    THEN [fs |-> f, res |-> Raised(base, "ValueError", FALSE), log |-> << >>]
    ELSE [fs |-> f, log |-> << >>,
          res |-> Returned(base,
                    PyStr("~ " \o float_str(round2(st_size(f, path), UNITS_MAPPING[units]))
                          \o " " \o units))]

\* Lines 247-277.
decode_image(f, imgstring, filename) ==
    LET base == Args("decode_image", filename, imgstring)
        imgdata == b64decode(imgstring)
        operr == open_w_error(f, filename)
    IN  IF imgdata.err # ""
        THEN [fs |-> f, res |-> Raised(base, imgdata.err, FALSE), log |-> << >>]
        ELSE IF operr # ""
        THEN [fs |-> f, res |-> Raised(base, "OSError", TRUE), log |-> << >>]
        ELSE [fs |-> write_text(f, filename, imgdata.text),
              res |-> Returned(base, PyNone),
              log |-> <<Rec("INFO", "decode_image", filename)>>]

\* Lines 281-312.
encode_image_to_base64(f, image_path) ==
    LET base == Args("encode_image_to_base64", image_path, "")
        operr == open_r_error(f, image_path)
    IN  IF ~Exists(f, image_path)
        THEN [fs |-> f, res |-> Raised(base, "FileNotFoundError", TRUE), log |-> << >>]
        ELSE IF operr # ""
        THEN [fs |-> f, res |-> Raised(base, "OSError", TRUE), log |-> << >>]
        ELSE [fs |-> f, log |-> << >>,
              res |-> Returned(base, PyStr(b64encode(f[image_path].data)))]

(***************************************************************************)
(* The utilities as actions: a caller makes one call after another          *)
(***************************************************************************)
UtilPaths == { <<"d">>, <<"d", "f">> }
UtilTexts == {"", "a: 1", "42", "[1, 2]", "[[\"a\", 1]]", "a: ["}
\* The directories asked of create_directories: the paths above and one that
\* no other utility touches.
DirPaths == UtilPaths \cup { <<"e">> }
DirLists == UNION { [1..n -> DirPaths] : n \in 0..MaxLen }

UtilFilesystems ==
    { f \in UNION { [S -> {DirNode} \cup {FileNode(t) : t \in UtilTexts}] :
                    S \in SUBSET UtilPaths } : WellFormed(f) }

TIdle == filepaths = << >> /\ idx = 0 /\ pc = "idle" /\ run = 0

UInit ==
    /\ fs \in UtilFilesystems
    /\ pre = fs
    /\ UIdle
    /\ LIdle
    /\ TIdle

\* One call of a utility, r being what the utility does on the current
\* filesystem.
UtilCall(r) ==
    /\ ncalls < MaxCalls
    /\ ncalls' = ncalls + 1
    /\ pre' = fs
    /\ fs' = r.fs
    /\ result' = r.res
    /\ calllog' = r.log
    /\ UNCHANGED <<tvars, lvars>>

ReadYaml == \E p \in UtilPaths : UtilCall(read_yaml(fs, p))

CreateDirectories ==
    \E l \in DirLists, verbose \in BOOLEAN : UtilCall(create_directories(fs, l, verbose))

SaveJson ==
    \E p \in UtilPaths, data \in {PyDict, PyDictWithSet, PyListOfInts} :
        UtilCall(save_json(fs, p, data))

LoadJson == \E p \in UtilPaths : UtilCall(load_json(fs, p))

SaveBin == \E p \in UtilPaths, data \in {PyDict, PyLambda} : UtilCall(save_bin(fs, data, p))

LoadBin == \E p \in UtilPaths : UtilCall(load_bin(fs, p))

GetSize ==
    \E p \in UtilPaths, units \in {"KB", "MB", "GB", "TB"} : UtilCall(get_size(fs, p, units))

DecodeImage ==
    \E p \in UtilPaths, imgstring \in {"", "NDI=", "YTogMQ==", "NDI"} :
        UtilCall(decode_image(fs, imgstring, p))

EncodeImageToBase64 == \E p \in UtilPaths : UtilCall(encode_image_to_base64(fs, p))

UNext ==
    \/ ReadYaml \/ GetSize \/ EncodeImageToBase64 \/ CreateDirectories \/ SaveJson
    \/ LoadJson \/ SaveBin \/ LoadBin \/ DecodeImage

SpecUtils == UInit /\ [][UNext]_vars


(***************************************************************************)
(* Claims about the persistence utilities                                  *)
(***************************************************************************)
Records(level) == {i \in DOMAIN calllog : calllog[i].level = level}
Logged(level, path) == \E i \in Records(level) : calllog[i].path = path
PathsOf(list) == {list[i] : i \in 1..Len(list)}

\* C3: a call of create_directories returns normally whatever fails; it has
\* attempted every path of the list; exactly the paths whose creation failed
\* have an error record, and every other path is a directory afterwards.
C3_BestEffortBatch ==
    result.fn = "create_directories" =>
        /\ result.exc = ""
        /\ result.attempted = result.paths
        /\ \A p \in PathsOf(result.paths) :
              /\ makedirs_raises(pre, p) <=> Logged("ERROR", p)
              /\ ~makedirs_raises(pre, p) => IsDir(fs, p)

\* C3 witness: the first path of a list failed and was logged, and the second,
\* missing before, was created.
C3_Witness ==
    /\ result.fn = "create_directories" /\ result.exc = ""
    /\ Len(result.paths) = 2
    /\ makedirs_raises(pre, result.paths[1]) /\ Logged("ERROR", result.paths[1])
    /\ ~Exists(pre, result.paths[2]) /\ IsDir(fs, result.paths[2])

\* C4: read_yaml raises FileNotFoundError naming the path for a file missing
\* from its directory, ValueError for a file that is empty or whose content is
\* not a mapping, YAMLError for malformed YAML, and returns nothing then.
C4_ReadYamlErrorKinds ==
    result.fn = "read_yaml" =>
        LET p == result.path
            loaded == yaml_safe_load(pre[p].data)
        IN  /\ (~Exists(pre, p) /\ IsDir(pre, Parent(p))) =>
                  (result.exc = "FileNotFoundError" /\ result.names_path)
            /\ (is_file(pre, p) /\ loaded.err = "" /\ loaded.value.type # "dict") =>
                  (result.exc = "ValueError" /\ result.value = PyNone)
            /\ (is_file(pre, p) /\ loaded.err = "YAMLError") =>
                  (result.exc = "YAMLError" /\ result.value = PyNone)

\* C5 (as claimed): get_size raises ValueError whenever the unit is not KB, MB
\* or GB, whatever the path, and FileNotFoundError whenever the path does not
\* exist; it returns only for an existing path and a unit of the set.
C5_GetSizeErrors ==
    result.fn = "get_size" =>
        /\ result.arg \notin {"KB", "MB", "GB"} => result.exc = "ValueError"
        /\ ~Exists(pre, result.path) => result.exc = "FileNotFoundError"
        /\ result.exc = "" => (Exists(pre, result.path) /\ result.arg \in {"KB", "MB", "GB"})

\* C5 (amended): get_size raises FileNotFoundError whenever the path does not
\* exist, whatever the unit; ValueError whenever the path exists and the unit
\* is not KB, MB or GB; and returns a size string exactly when the path exists
\* and the unit is in the set.
C5_GetSizeErrorsExistenceFirst ==
    result.fn = "get_size" =>
        /\ ~Exists(pre, result.path) => result.exc = "FileNotFoundError"
        /\ (Exists(pre, result.path) /\ result.arg \notin {"KB", "MB", "GB"}) =>
              result.exc = "ValueError"
        /\ (Exists(pre, result.path) /\ result.arg \in {"KB", "MB", "GB"}) =>
              (result.exc = "" /\ result.value.type = "str")
        /\ result.exc # "" => result.value = PyNone

\* C5 witness: get_size was asked for "TB" of an existing file and raised
\* ValueError.
C5_Witness ==
    /\ result.fn = "get_size" /\ result.arg = "TB"
    /\ is_file(pre, result.path) /\ result.exc = "ValueError"

\* C6: whenever save_json fails to open, write or encode, it raises and has
\* logged an error record naming the destination; a non-mapping is rejected
\* with a type error and the filesystem is as before.
C6_SaveJsonFailuresLogged ==
    result.fn = "save_json" =>
        /\ (result.arg # PyListOfInts.repr /\
            (open_w_error(pre, result.path) # "" \/ result.arg = PyDictWithSet.repr)) =>
              (result.exc # "" /\ Logged("ERROR", result.path))
        /\ result.arg = PyListOfInts.repr =>
              (result.exc \in {"TypeError", "EnsureError"} /\ fs = pre)

\* C7 (as claimed): every utility call that returns normally has logged
\* exactly one informational record.
C7_OneInfoRecordPerCall ==
    (result.fn # "" /\ result.exc = "") => Cardinality(Records("INFO")) = 1

LoggingUtilities ==
    {"read_yaml", "save_json", "load_json", "save_bin", "load_bin", "decode_image"}

\* C7 (amended): a call of read_yaml, save_json, load_json, save_bin, load_bin
\* or decode_image that returns normally has logged exactly one informational
\* record, naming its path, and nothing else; get_size and
\* encode_image_to_base64 log nothing; create_directories logs one
\* informational record per directory it created when verbose, none otherwise.
C7_InfoRecordsPerCall ==
    (result.fn # "" /\ result.exc = "") =>
        /\ result.fn \in LoggingUtilities =>
              calllog = <<Rec("INFO", result.fn, result.path)>>
        /\ result.fn \in {"get_size", "encode_image_to_base64"} => calllog = << >>
        /\ result.fn = "create_directories" =>
              Cardinality(Records("INFO")) =
                  IF result.arg = "True"
                  THEN Cardinality({i \in 1..Len(result.paths) :
                                       ~makedirs_raises(pre, result.paths[i])})
                  ELSE 0

\* C7 witness: load_bin returned the object save_bin had written, with its one
\* record.
C7_Witness ==
    /\ result.fn = "load_bin" /\ result.exc = "" /\ result.value = PyDict
    /\ calllog = <<Rec("INFO", "load_bin", result.path)>>

(***************************************************************************)
(* cnnClassifier/__init__.py: LoggerConfig                                 *)
(***************************************************************************)
\* Line 21.
logging_format == "[%(asctime)s: %(levelname)s: %(module)s: %(message)s]"

\* logging.FileHandler(path) / logging.StreamHandler(sys.stdout), the obj-th
\* object created.
FileHandler(path, obj) == [kind |-> "FileHandler", target |-> path, fmt |-> "", obj |-> obj]
StreamHandler(obj) == [kind |-> "StreamHandler", target |-> <<"stdout">>, fmt |-> "", obj |-> obj]

\* logging.FileHandler opens its file for appending when it is built: the
\* error of that open, and the filesystem after it.
open_a_error(f, p) == open_w_error(f, p)
open_a(f, p) == IF Exists(f, p) THEN f ELSE write_text(f, p, "")

\* Variant: logging.basicConfig(force=True), which replaces the handlers.
basicConfigForce(r, level, format, handlers) ==
    [handlers |-> [i \in 1..Len(handlers) |-> [handlers[i] EXCEPT !.fmt = format]],
     level |-> level]
\* Lines 37-44: logging.basicConfig does nothing when the root logger already
\* has handlers; otherwise it gives each handler the format, adds them to the
\* root logger and sets its level.
basicConfig(r, level, format, handlers) ==
    IF Len(r.handlers) = 0
    THEN [handlers |-> [i \in 1..Len(handlers) |-> [handlers[i] EXCEPT !.fmt = format]],
          level |-> level]
    ELSE r

\* Line 46: logging.getLogger(name): the registered instance, or a new one
\* (the obj-th object) that is registered.
getLogger(dict, name, obj) ==
    IF name \in DOMAIN dict THEN [dict |-> dict, logger |-> dict[name], made |-> 0]
    ELSE [dict |-> [n \in DOMAIN dict \cup {name} |-> IF n = name THEN obj ELSE dict[n]],
          logger |-> obj, made |-> 1]

\* Lines 23-47, for a LoggerConfig(log_dir, log_filename).
configure_logger(f, r, dict, n, log_dir, log_filename, logger_name) ==
    LET log_filepath == Append(log_dir, log_filename)
        f1 == makedirs(f, log_dir)
        f2 == open_a(f1, log_filepath)
        got == getLogger(dict, logger_name, n + 3)
        same == [fs |-> f, root |-> r, dict |-> dict, nobj |-> n, logger |-> 0,
                 exc |-> "FileExistsError"]
    IN  IF makedirs_raises(f, log_dir)
        THEN same
        ELSE IF open_a_error(f1, log_filepath) # ""
        THEN [same EXCEPT !.fs = f1, !.exc = open_a_error(f1, log_filepath)]
        ELSE [fs |-> f2,
              root |-> basicConfig(r, "INFO", logging_format,
                          <<FileHandler(log_filepath, n + 1), StreamHandler(n + 2)>>),
              dict |-> got.dict, nobj |-> n + 2 + got.made,
              logger |-> got.logger, exc |-> ""]

LogDirs == { <<"logs">>, <<"out">> }
LogFilenames == {"running_logs.log", "debug.log"}
LoggerNames == {"cnnClassifierLogger", "app"}
LogPaths == LogDirs \cup {Append(d, n) : d \in LogDirs, n \in LogFilenames}

LogFilesystems ==
    { f \in UNION { [S -> {DirNode, FileNode("")}] : S \in SUBSET LogPaths } :
        WellFormed(f) }

LInit ==
    /\ fs \in LogFilesystems
    /\ pre = fs
    /\ LIdle
    /\ UIdle
    /\ TIdle

\* LoggerConfig(log_dir, log_filename).configure_logger(logger_name)
ConfigureLogger ==
    \E log_dir \in LogDirs, log_filename \in LogFilenames, logger_name \in LoggerNames :
        LET r == configure_logger(fs, root, loggerDict, nobj,
                                  log_dir, log_filename, logger_name) IN
        /\ Len(lcalls) < MaxCalls
        /\ pre' = fs
        /\ fs' = r.fs
        /\ root' = r.root
        /\ loggerDict' = r.dict
        /\ nobj' = r.nobj
        /\ lcalls' = Append(lcalls,
               [log_filepath |-> Append(log_dir, log_filename),
                logger_name |-> logger_name, exc |-> r.exc, logger |-> r.logger,
                root |-> r.root])
        /\ UNCHANGED <<tvars, uvars>>

LNext == ConfigureLogger

SpecLogger == LInit /\ [][LNext]_vars

(***************************************************************************)
(* Claims about the logging initializer                                    *)
(***************************************************************************)
\* The root logger as a call for log_filepath configures it: the file handler
\* and the standard-output handler, in the fixed format, at INFO.
ConfiguredFor(r, log_filepath) ==
    /\ r.level = "INFO"
    /\ Len(r.handlers) = 2
    /\ r.handlers[1].kind = "FileHandler" /\ r.handlers[1].target = log_filepath
    /\ r.handlers[2].kind = "StreamHandler" /\ r.handlers[2].target = <<"stdout">>
    /\ \A i \in 1..2 : r.handlers[i].fmt = logging_format

\* Calls with the same logger name that returned, returned the same instance.
SameNameSameInstance ==
    \A i, j \in 1..Len(lcalls) :
        (lcalls[i].exc = "" /\ lcalls[j].exc = ""
            /\ lcalls[i].logger_name = lcalls[j].logger_name) =>
        lcalls[i].logger = lcalls[j].logger

\* C8 (as claimed): the root logger's handler set is written by the first call
\* of configure_logger only: when that call returns, the root logger has the
\* two handlers, and whatever the later calls are, each leaves the root logger
\* as the first call left it; calls with the same name return the same logger.
C8_ConfiguredByFirstCall ==
    /\ (Len(lcalls) >= 1 /\ lcalls[1].exc = "") =>
          ConfiguredFor(lcalls[1].root, lcalls[1].log_filepath)
    /\ \A i \in 2..Len(lcalls) : lcalls[i].root = lcalls[1].root
    /\ SameNameSameInstance

Returning == {i \in 1..Len(lcalls) : lcalls[i].exc = ""}

\* C8 (amended): the root logger is configured by the first call of
\* configure_logger that returns without raising, stays unconfigured until
\* then, and is left unchanged by every later call; calls with the same name
\* return the same logger.
C8_ConfiguredByFirstReturningCall ==
    /\ \A i \in 1..Len(lcalls) :
          IF \E k \in Returning : k <= i
          THEN LET k == CHOOSE k \in Returning : \A m \in Returning : k <= m IN
               /\ ConfiguredFor(lcalls[k].root, lcalls[k].log_filepath)
               /\ lcalls[i].root = lcalls[k].root
          ELSE lcalls[i].root = UnconfiguredRoot
    /\ root = IF lcalls = << >> THEN UnconfiguredRoot ELSE lcalls[Len(lcalls)].root
    /\ SameNameSameInstance

\* C8 witness: two calls returned, for different log files and the same logger
\* name; the second left the root logger as the first configured it.
C8_Witness ==
    /\ Len(lcalls) = 2 /\ Returning = {1, 2}
    /\ lcalls[1].log_filepath # lcalls[2].log_filepath
    /\ lcalls[1].logger_name = lcalls[2].logger_name
    /\ lcalls[1].logger = lcalls[2].logger
    /\ root = lcalls[1].root /\ ConfiguredFor(root, lcalls[1].log_filepath)
====
